---- MODULE Spec2Model ----
(***************************************************************************)
(* Model of the carapace chat client: the pinia store `app`                *)
(* (src/src/store/app.ts), the Messages view that selects a contact and    *)
(* edits its draft, and the Home view that shows the public key fetched    *)
(* from the host and copies it to the clipboard (src/unnamed/part_000).    *)
(*                                                                         *)
(* JavaScript `undefined` is modelled by the string Undefined, which is    *)
(* distinct from every identifier, text and key of the model.  An optional *)
(* object (the result of Array.prototype.find) is a sequence of length 0   *)
(* (undefined) or 1 (the object found).                                    *)
(***************************************************************************)
EXTENDS Naturals, Sequences, FiniteSets, TLC

Undefined == "undefined"

\* ------------------------------------------------------------- bounds
\* Most clipboard copies in one behaviour.
MaxCopies == 2

\* Texts an input event of the draft field, or a caller of the store, may carry.
Texts == {"", "hi", "yo"}

\* Values the host may return for get_pub_key (the placeholder text included).
Keys == {"test", "pk1", "pk2"}

\* ------------------------------------------------------------- fixture data
contacts ==
    << [id |-> "1", name |-> "John Doe",   status |-> "online"],
       [id |-> "2", name |-> "Jane Doe",   status |-> "away"],
       [id |-> "3", name |-> "John Smith", status |-> "offline"] >>

FixtureIds == {contacts[i].id : i \in 1..Len(contacts)}

\* Identifiers a consumer of the store may use: the store validates nothing,
\* so an identifier of no fixture contact ("4") is among them.
StoreIds == FixtureIds \cup {"4"}

\* ------------------------------------------------------------- state
VARIABLES
    activeContact,          \* store: messages.activeContact
    contactDraftMessages,   \* store: messages.contactDraftMessages
    pubkey,                 \* Home: ref pubkey
    showCopied,             \* Home: ref showCopied
    invokePromise,          \* Home: the promise of invoke('get_pub_key')
    invokeCalls,            \* Home: number of invoke('get_pub_key') calls issued
    clipboardWrites,        \* texts handed to navigator.clipboard.writeText, in order
    lastOp,                 \* history: the operation that produced this state
    draftLog,               \* history: identifier -> text of the latest setDraft
    activeLog               \* history: latest argument of setActiveContactId

storeVars == <<activeContact, contactDraftMessages>>
homeVars  == <<pubkey, showCopied, invokePromise, invokeCalls, clipboardWrites>>
logVars   == <<draftLog, activeLog>>
vars == <<activeContact, contactDraftMessages, pubkey, showCopied, invokePromise,
          invokeCalls, clipboardWrites, lastOp, draftLog, activeLog>>

\* An object with no own property.
EmptyRecord == [k \in {} |-> ""]

\* obj[key] = value on a plain object: adds or replaces one property.
Put(obj, key, value) ==
    [k \in (DOMAIN obj) \cup {key} |-> IF k = key THEN value ELSE obj[k]]

Op(name, a, b, prev) == [op |-> name, a |-> a, b |-> b, prev |-> prev]

\* ------------------------------------------------------------- store
\* Variant: the draft mapping is created with an empty entry per fixture contact.
state_seeded ==
    [activeContact |-> Undefined, contactDraftMessages |-> [c \in FixtureIds |-> ""]]

\* state(): the store's initial state.
state == [activeContact |-> Undefined, contactDraftMessages |-> EmptyRecord]

\* Read of messages.activeContact.
getActiveContactId == activeContact

\* Read of messages.contactDraftMessages[c]: a property read of a plain object,
\* undefined when the object has no such property.
getDraft(c) ==
    IF c \in DOMAIN contactDraftMessages THEN contactDraftMessages[c] ELSE Undefined

\* Variant: the store accepts only identifiers of fixture contacts.
setActiveContactId_validated(id) ==
    /\ activeContact' = IF id \in FixtureIds THEN id ELSE activeContact
    /\ UNCHANGED contactDraftMessages

\* Variant: switching the contact discards the draft of the contact left.
setActiveContactId_clearDraft(id) ==
    /\ activeContact' = id
    /\ contactDraftMessages' =
          [k \in (DOMAIN contactDraftMessages) \ {activeContact} |-> contactDraftMessages[k]]

\* messages.activeContact = id
setActiveContactId(id) ==
    /\ activeContact' = id
    /\ UNCHANGED contactDraftMessages

\* Variant: a falsy text is not stored.
setDraft_ifTruthy(c, t) ==
    /\ contactDraftMessages' =
          IF t = "" THEN contactDraftMessages ELSE Put(contactDraftMessages, c, t)
    /\ UNCHANGED activeContact

\* Variant: the write replaces the whole mapping by the one entry.
setDraft_replaceAll(c, t) ==
    /\ contactDraftMessages' = [k \in {c} |-> t]
    /\ UNCHANGED activeContact

\* messages.contactDraftMessages[c] = t
setDraft(c, t) ==
    /\ contactDraftMessages' = Put(contactDraftMessages, c, t)
    /\ UNCHANGED activeContact

\* A call of the store operation together with its record in the history.
callSetActiveContactId(id) ==
    /\ setActiveContactId(id)
    /\ activeLog' = [called |-> TRUE, arg |-> id]
    /\ lastOp' = Op("setActiveContactId", id, "", activeContact)
    /\ UNCHANGED draftLog

callSetDraft(c, t) ==
    /\ setDraft(c, t)
    /\ draftLog' = Put(draftLog, c, t)
    /\ lastOp' = Op("setDraft", c, t, getDraft(c))
    /\ UNCHANGED activeLog

\* ------------------------------------------------------------- Messages view
\* contacts.find(contact => contact.id === id): the first match in array order.
RECURSIVE findFrom(_, _)
findFrom(i, id) ==
    IF i > Len(contacts) THEN <<>>
    ELSE IF contacts[i].id = id THEN <<contacts[i]>>
    ELSE findFrom(i + 1, id)

\* Variant: the lookup is evaluated once at setup, when no contact is active.
currentContact_once == findFrom(1, Undefined)

\* computed(() => contacts.find(contact => contact.id === activeContact))
currentContact == findFrom(1, activeContact)

\* Variant: a click on the active contact deselects it.
clickContact_toggle(i) ==
    callSetActiveContactId(
        IF activeContact = contacts[i].id THEN Undefined ELSE contacts[i].id)

\* @click of the i-th entry of the contact list.
clickContact(i) == callSetActiveContactId(contacts[i].id)

\* Variant: the draft field is rendered unconditionally, keyed by the active id.
inputDraft_unguarded(t) == callSetDraft(activeContact, t)

\* Input event of the draft field, which is rendered only under
\* v-if="currentContact !== undefined" and bound to the current contact's id.
inputDraft(t) ==
    /\ currentContact # <<>>
    /\ callSetDraft(currentContact[1].id, t)

\* ------------------------------------------------------------- Home view
\* .then(key => pubkey.value = key): the host call resolves with `key`.
invokeResolve(key) ==
    /\ invokePromise.state = "pending"
    /\ invokePromise' = [state |-> "fulfilled", value |-> key]
    /\ pubkey' = key
    /\ UNCHANGED <<showCopied, invokeCalls, clipboardWrites>>

\* Variant: a rejection handler shows the failure in the key field.
invokeReject_showError ==
    /\ invokePromise.state = "pending"
    /\ invokePromise' = [state |-> "rejected", value |-> Undefined]
    /\ pubkey' = "error"
    /\ UNCHANGED <<showCopied, invokeCalls, clipboardWrites>>

\* The host call fails: the promise has no rejection handler.
invokeReject ==
    /\ invokePromise.state = "pending"
    /\ invokePromise' = [state |-> "rejected", value |-> Undefined]
    /\ UNCHANGED <<pubkey, showCopied, invokeCalls, clipboardWrites>>

\* Variant: the text copied is the one captured at setup.
copyPubKey_placeholder ==
    /\ Len(clipboardWrites) < MaxCopies
    /\ showCopied' = TRUE
    /\ clipboardWrites' = Append(clipboardWrites, "test")
    /\ UNCHANGED <<pubkey, invokePromise, invokeCalls>>

\* copyPubKey: showCopied.value = true; navigator.clipboard.writeText(pubkey.value)
copyPubKey ==
    /\ Len(clipboardWrites) < MaxCopies
    /\ showCopied' = TRUE
    /\ clipboardWrites' = Append(clipboardWrites, pubkey)
    /\ UNCHANGED <<pubkey, invokePromise, invokeCalls>>

\* @mouseleave="showCopied = false"
mouseleave ==
    /\ showCopied' = FALSE
    /\ UNCHANGED <<pubkey, invokePromise, invokeCalls, clipboardWrites>>

\* v-model="showCopied" of the tooltip: the tooltip writes its open state back.
tooltipModel(b) ==
    /\ showCopied' = b
    /\ UNCHANGED <<pubkey, invokePromise, invokeCalls, clipboardWrites>>

\* ------------------------------------------------------------- specification
Init ==
    /\ activeContact = state.activeContact
    /\ contactDraftMessages = state.contactDraftMessages
    /\ pubkey = "test"
    /\ showCopied = FALSE
    /\ invokePromise = [state |-> "pending", value |-> Undefined]
    /\ invokeCalls = 1
    /\ clipboardWrites = <<>>
    /\ lastOp = Op("init", "", "", "")
    /\ draftLog = EmptyRecord
    /\ activeLog = [called |-> FALSE, arg |-> Undefined]

Click == \E i \in 1..Len(contacts) : clickContact(i) /\ UNCHANGED homeVars

Input == \E t \in Texts : inputDraft(t) /\ UNCHANGED homeVars

Resolve ==
    \E key \in Keys :
        /\ invokeResolve(key)
        /\ lastOp' = Op("invokeResolve", key, "", pubkey)
        /\ UNCHANGED <<storeVars, logVars>>

Reject ==
    /\ invokeReject
    /\ lastOp' = Op("invokeReject", "", "", pubkey)
    /\ UNCHANGED <<storeVars, logVars>>

Copy ==
    /\ copyPubKey
    /\ lastOp' = Op("copyPubKey", "", "", pubkey)
    /\ UNCHANGED <<storeVars, logVars>>

MouseLeave ==
    /\ mouseleave
    /\ lastOp' = Op("mouseleave", "", "", pubkey)
    /\ UNCHANGED <<storeVars, logVars>>

TooltipModel ==
    \E b \in BOOLEAN :
        /\ tooltipModel(b)
        /\ lastOp' = Op("tooltipModel", "", "", pubkey)
        /\ UNCHANGED <<storeVars, logVars>>

\* The application: the Messages view and the Home view over the one store.
Next == Click \/ Input \/ Resolve \/ Reject \/ Copy \/ MouseLeave \/ TooltipModel

Spec == Init /\ [][Next]_vars

\* The store under an arbitrary consumer: any identifier, any text, and
\* undefined as the active contact.
StoreSetActive ==
    \E id \in StoreIds \cup {Undefined} :
        callSetActiveContactId(id) /\ UNCHANGED homeVars

StoreSetDraft ==
    \E c \in StoreIds, t \in Texts : callSetDraft(c, t) /\ UNCHANGED homeVars

StoreNext == StoreSetActive \/ StoreSetDraft

StoreSpec == Init /\ [][StoreNext]_vars

\* ------------------------------------------------------------- claims: store
\* The most recent argument of setActiveContactId, undefined if never called.
LastActiveArg == IF activeLog.called THEN activeLog.arg ELSE Undefined

\* C1 as stated: for every identifier c, before any setDraft(c, ...) the read of
\* contactDraftMessages[c] returns the empty string "".
C1_ReadsEmptyString ==
    \A c \in StoreIds : c \notin DOMAIN draftLog => getDraft(c) = ""

\* C1 amended: for every identifier c, before any setDraft(c, ...) the mapping
\* has no entry for c and the read of contactDraftMessages[c] yields undefined.
C1_AbsentBeforeFirstWrite ==
    \A c \in StoreIds :
        c \notin DOMAIN draftLog =>
            /\ c \notin DOMAIN contactDraftMessages
            /\ getDraft(c) = Undefined

\* C1 case: operations have run, "2" has a draft, "1" was selected but never written.
C1_Witness ==
    /\ "2" \in DOMAIN draftLog
    /\ "1" \notin DOMAIN draftLog
    /\ activeLog.called /\ activeLog.arg = "1"

\* C2: right after setDraft(c, t) the read of c's draft returns exactly t,
\* whatever c held before and also for the empty text.
C2_WriteThenRead ==
    lastOp.op = "setDraft" => getDraft(lastOp.a) = lastOp.b

\* C2 case: a draft "hi" was just overwritten by the empty text.
C2_Witness ==
    /\ lastOp.op = "setDraft"
    /\ lastOp.b = ""
    /\ lastOp.prev = "hi"

\* C3: a setDraft(c, t) step leaves the draft of every other identifier as it
\* was, and every identifier ever written reads the text of its latest write.
C3_KeyIsolation ==
    /\ [](\A d \in DOMAIN draftLog : getDraft(d) = draftLog[d])
    /\ [][\A d \in StoreIds :
            (lastOp'.op = "setDraft" /\ lastOp'.a # d) => getDraft(d)' = getDraft(d)]_vars

\* C3 case: "1" holds "hi" and the latest operation wrote "yo" under "2".
C3_Witness ==
    /\ lastOp = Op("setDraft", "2", "yo", Undefined)
    /\ "1" \in DOMAIN draftLog
    /\ draftLog["1"] = "hi"

\* C4: the active contact id read is the latest argument of setActiveContactId
\* (undefined included), and undefined if it was never called.
C4_LastWriteRead == getActiveContactId = LastActiveArg

\* C4 case: contact "2" was active and undefined was just written.
C4_Witness ==
    /\ lastOp = Op("setActiveContactId", Undefined, "", "2")
    /\ activeLog.called

\* C5: the current contact is the fixture contact whose id is the stored active
\* id, undefined when there is none; after a selection of a fixture contact it
\* is the contact selected last.
C5_CurrentContactFollowsActive ==
    /\ \A i \in 1..Len(contacts) :
          contacts[i].id = activeContact => currentContact = <<contacts[i]>>
    /\ activeContact \notin FixtureIds => currentContact = <<>>
    /\ LastActiveArg \in FixtureIds =>
          /\ currentContact # <<>>
          /\ currentContact[1].id = LastActiveArg

\* C5 case: "2" was selected, then "3": the conversation shown is John Smith's.
C5_Witness ==
    /\ lastOp = Op("setActiveContactId", "3", "", "2")
    /\ currentContact # <<>>
    /\ currentContact[1].name = "John Smith"

\* ------------------------------------------------------------- claims: views
\* C6: a change of the active contact leaves the whole draft mapping as it was,
\* and no step removes an entry of the mapping.
C6_DraftsRetained ==
    [][/\ lastOp'.op = "setActiveContactId" =>
              contactDraftMessages' = contactDraftMessages
       /\ \A c \in DOMAIN contactDraftMessages :
              c \in DOMAIN contactDraftMessages']_vars

\* C6 case: "hi" was typed for "1", "yo" for "2", and the view is back on "1".
C6_Witness ==
    /\ lastOp = Op("setActiveContactId", "1", "", "2")
    /\ getDraft("1") = "hi"
    /\ getDraft("2") = "yo"

\* C7: the key shown is the placeholder until the host call resolves and the
\* returned key from then on; it changes only in the step that resolves the
\* call; a settled call stays as it is; the call is issued once.
C7_KeyShown ==
    /\ [](invokePromise.state # "fulfilled" => pubkey = "test")
    /\ [](invokePromise.state = "fulfilled" => pubkey = invokePromise.value)
    /\ [](invokeCalls = 1)
    /\ [][pubkey' # pubkey =>
            invokePromise.state = "pending" /\ invokePromise'.state = "fulfilled"]_vars
    /\ [][invokePromise.state # "pending" => invokePromise' = invokePromise]_vars

\* C7 case: the call just resolved with "pk1", replacing the placeholder.
C7_Witness ==
    /\ lastOp = Op("invokeResolve", "pk1", "", "test")
    /\ pubkey = "pk1"

\* C8: a copy hands the clipboard the key text shown at that moment (the
\* placeholder before the host call resolves, the returned key after) and
\* leaves the key shown as it was.
C8_CopyWritesShownKey ==
    /\ lastOp.op = "copyPubKey" =>
          /\ clipboardWrites # <<>>
          /\ clipboardWrites[Len(clipboardWrites)] = lastOp.prev
          /\ pubkey = lastOp.prev
          /\ clipboardWrites[Len(clipboardWrites)] =
                IF invokePromise.state = "fulfilled" THEN invokePromise.value ELSE "test"
    /\ \A i \in 1..Len(clipboardWrites) : clipboardWrites[i] \in {"test", pubkey}

\* C8 case: one copy before the call resolved and one after it resolved with "pk1".
C8_Witness ==
    /\ lastOp.op = "copyPubKey"
    /\ clipboardWrites = <<"test", "pk1">>

\* C9: through the view every key of the draft mapping is the id of a fixture
\* contact, a draft is written under the id active at that moment, and the
\* mapping is empty while no contact has been selected.
C9_DraftKeysAreFixtureIds ==
    /\ DOMAIN contactDraftMessages \subseteq FixtureIds
    /\ ~activeLog.called => contactDraftMessages = EmptyRecord
    /\ lastOp.op = "setDraft" =>
          /\ lastOp.a = activeContact
          /\ lastOp.a \in FixtureIds

\* C9 case: drafts exist for "1" and "2", the latest typed while "2" was active.
C9_Witness ==
    /\ lastOp.op = "setDraft"
    /\ lastOp.a = "2"
    /\ DOMAIN contactDraftMessages = {"1", "2"}

\* C10: through the view the active contact id is undefined exactly until the
\* first selection, is a fixture id from then on, and never becomes undefined
\* again.
C10_NoDeselect ==
    /\ [](activeLog.called <=> activeContact # Undefined)
    /\ [](activeLog.called => activeContact \in FixtureIds)
    /\ [][activeContact # Undefined => activeContact' \in FixtureIds]_vars

\* C10 case: the active contact "1" was clicked again and is still selected.
C10_Witness ==
    /\ lastOp = Op("setActiveContactId", "1", "", "1")
    /\ activeContact = "1"

====
